---- MODULE Spec2Model ----
(***************************************************************************)
(* State-machine model of FileManagerApp (src/src/main.py): the current    *)
(* directory, the hidden-file flag, the clipboard, the file table and the  *)
(* modal dialogs, over a small POSIX filesystem.                           *)
(*                                                                         *)
(* Strings are tuples of character codes, so that str.lower(),             *)
(* str.startswith("."), str.strip() and the parsing of a string into a     *)
(* pathlib.Path are computed and not assumed.  A Path is the tuple of its  *)
(* parts, as pathlib keeps it: an absolute path starts with the part "/",  *)
(* Path(".") is the empty tuple, and ".." parts are kept (pathlib never    *)
(* collapses them).                                                        *)
(***************************************************************************)
EXTENDS Integers, Sequences, FiniteSets, TLC

\* ------------------------------------------------------------ bounds

\* The filesystem never holds more than MaxNodes entries ("/" included):
\* a command that would create more is not issued.
MaxNodes == 5

\* ------------------------------------------------------------ strings

s_slash == <<47>>            \* "/"
s_up    == <<46, 46>>        \* ".."
s_dot   == <<46>>            \* "."
s_tilde == <<126>>           \* "~"
s_empty == <<>>              \* ""
s_a     == <<97>>            \* "a"
s_b     == <<98>>            \* "b"
s_B     == <<66>>            \* "B"
s_hid   == <<46, 99>>        \* ".c"
s_p     == <<112>>           \* "p"
s_P     == <<80>>            \* "P"

\* str.lower() on one ASCII character.
LowerChar(c) == IF c >= 65 /\ c <= 90 THEN c + 32 ELSE c

\* str.lower()
Lower(s) == [i \in 1..Len(s) |-> LowerChar(s[i])]

\* s < t in Python's string order (lexicographic on code points).
RECURSIVE StrLess(_, _)
StrLess(s, t) ==
  IF t = <<>> THEN FALSE
  ELSE IF s = <<>> THEN TRUE
  ELSE IF s[1] # t[1] THEN s[1] < t[1]
  ELSE StrLess(Tail(s), Tail(t))

\* str.startswith(".")
StartsWithDot(s) == Len(s) > 0 /\ s[1] = 46

\* str.strip() for blanks.
RECURSIVE Strip(_)
Strip(s) ==
  IF s = <<>> THEN s
  ELSE IF s[1] = 32 THEN Strip(Tail(s))
  ELSE IF s[Len(s)] = 32 THEN Strip(SubSeq(s, 1, Len(s) - 1))
  ELSE s

\* ------------------------------------------------------------ pathlib

\* The "/"-separated segments of a string, empty ones included.
RECURSIVE SplitAcc(_, _, _)
SplitAcc(s, cur, acc) ==
  IF s = <<>> THEN Append(acc, cur)
  ELSE IF s[1] = 47 THEN SplitAcc(Tail(s), <<>>, Append(acc, cur))
  ELSE SplitAcc(Tail(s), Append(cur, s[1]), acc)

RECURSIVE DropTrivial(_)
DropTrivial(segs) ==
  IF segs = <<>> THEN <<>>
  ELSE IF segs[1] = s_empty \/ segs[1] = s_dot THEN DropTrivial(Tail(segs))
  ELSE <<segs[1]>> \o DropTrivial(Tail(segs))

\* Path(s): empty and "." segments are dropped, ".." is kept, a leading "/"
\* gives the anchor part.
ParsePath(s) ==
  LET rest == DropTrivial(SplitAcc(s, <<>>, <<>>))
  IN IF Len(s) > 0 /\ s[1] = 47 THEN <<s_slash>> \o rest ELSE rest

IsAbsolute(p) == Len(p) > 0 /\ p[1] = s_slash

\* Path.name: the last part, "" for "/" and for ".".
PathName(p) ==
  IF p = <<>> \/ p = <<s_slash>> THEN s_empty ELSE p[Len(p)]

\* Path.parent: "/" and "." are their own parents.
PathParent(p) ==
  IF p = <<>> \/ p = <<s_slash>> THEN p ELSE SubSeq(p, 1, Len(p) - 1)

\* base / s : an absolute right operand replaces the left one.
JoinPath(base, s) ==
  LET q == ParsePath(s) IN IF IsAbsolute(q) THEN q ELSE base \o q

\* str(p): the parts joined by "/", "." for the path without parts.
RECURSIVE JoinParts(_)
JoinParts(parts) ==
  IF parts = <<>> THEN s_empty
  ELSE IF Len(parts) = 1 THEN parts[1]
  ELSE parts[1] \o s_slash \o JoinParts(Tail(parts))

PathStr(p) ==
  IF p = <<>> THEN s_dot
  ELSE IF IsAbsolute(p) THEN s_slash \o JoinParts(Tail(p))
  ELSE JoinParts(p)

\* Path.home(): the user's home directory is "/".
Home == <<s_slash>>

\* The working directory of the process, against which the OS resolves a
\* relative path.
Cwd == Home

\* Path.expanduser(): a leading "~" part becomes the home directory.
ExpandUser(p) ==
  IF Len(p) > 0 /\ p[1] = s_tilde THEN Home \o Tail(p) ELSE p

\* ------------------------------------------------------------ filesystem

\* A filesystem is a function from the canonical absolute paths that exist
\* to their nodes:
\*   [kind: "dir" | "file", readable: BOOLEAN, size: Nat, mtime: 0 | 1]
\* readable is the r bit of the mode (all entries keep w and x); mtime 0 is
\* "before the program started", 1 is "during this run".
NoPath == <<>>

Root == <<s_slash>>

IsDirAt(f, c) == c \in DOMAIN f /\ f[c].kind = "dir"

\* The kernel's path resolution: every part is looked up in the directory
\* reached so far, ".." goes to that directory's parent.  NoPath when a
\* part is looked up in something that is not an existing directory.
RECURSIVE Walk(_, _, _)
Walk(f, cur, parts) ==
  IF parts = <<>> THEN cur
  ELSE IF ~IsDirAt(f, cur) THEN NoPath
  ELSE IF parts[1] = s_up THEN Walk(f, PathParent(cur), Tail(parts))
  ELSE Walk(f, Append(cur, parts[1]), Tail(parts))

Resolve(f, p) ==
  IF IsAbsolute(p) THEN Walk(f, Root, Tail(p)) ELSE Walk(f, Cwd, p)

\* Path.exists()
PathExists(f, p) == Resolve(f, p) \in DOMAIN f

\* Path.is_dir()
PathIsDir(f, p) == IsDirAt(f, Resolve(f, p))

\* The entries directly inside the directory c.
ChildrenOf(f, c) ==
  {q \in DOMAIN f : Len(q) = Len(c) + 1 /\ SubSeq(q, 1, Len(c)) = c}

\* c and everything below it.
SubtreeOf(f, c) ==
  {q \in DOMAIN f : Len(q) >= Len(c) /\ SubSeq(q, 1, Len(c)) = c}

\* The strings of a finite set as a sequence in ascending string order.
RECURSIVE SortedStrings(_)
SortedStrings(S) ==
  IF S = {} THEN <<>>
  ELSE LET m == CHOOSE x \in S : \A y \in S : y = x \/ StrLess(x, y)
       IN <<m>> \o SortedStrings(S \ {m})

Reverse(q) == [i \in 1..Len(q) |-> q[Len(q) + 1 - i]]

\* os.scandir(): the names inside directory c, in the order the kernel
\* hands them out.  That order is arbitrary: desc picks one of two, and
\* stays as it is while the program runs.
ScanDir(f, c, desc) ==
  LET names == SortedStrings({PathName(q) : q \in ChildrenOf(f, c)})
  IN IF desc THEN Reverse(names) ELSE names

\* Path.iterdir() of p: [exc, entries], each entry the Path p / name.
IterDir(f, p, desc) ==
  LET c == Resolve(f, p) IN
  IF c \notin DOMAIN f THEN [exc |-> "FileNotFoundError", entries |-> <<>>]
  ELSE IF f[c].kind # "dir" THEN [exc |-> "NotADirectoryError", entries |-> <<>>]
  ELSE IF ~f[c].readable THEN [exc |-> "PermissionError", entries |-> <<>>]
  ELSE LET names == ScanDir(f, c, desc)
       IN [exc |-> "none",
           entries |-> [i \in 1..Len(names) |-> Append(p, names[i])]]

\* ------------------------------------------------------------ helpers

\* f"{x:.1f}" of the rational num/den, in tenths: rounded to the nearest
\* tenth, an exact half to the even one.
Tenths(num, den) ==
  LET q == (num * 10) \div den
      r == (num * 10) % den
  IN IF 2 * r > den \/ (2 * r = den /\ q % 2 = 1) THEN q + 1 ELSE q

\* human_size(size): size is divided by 1024 until it is below 1024; the
\* result is [tenths, unit].
RECURSIVE HumanSizeFrom(_, _, _)
HumanSizeFrom(size, den, units) ==
  IF units = <<>> THEN [tenths |-> Tenths(size, den), unit |-> "PB"]
  ELSE IF size < 1024 * den
    THEN [tenths |-> Tenths(size, den), unit |-> units[1]]
  ELSE HumanSizeFrom(size, den * 1024, Tail(units))

human_size(size) == HumanSizeFrom(size, 1, <<"B", "KB", "MB", "GB", "TB">>)

\* The size column of a row: "-" for a directory, "?" when the entry cannot
\* be examined, human_size of st_size otherwise.
SizeCell(f, p) ==
  LET c == Resolve(f, p) IN
  IF PathIsDir(f, p) THEN [tenths |-> 0, unit |-> "-"]
  ELSE IF c \in DOMAIN f THEN human_size(f[c].size)
  ELSE [tenths |-> 0, unit |-> "?"]

\* file_permissions(path): stat.filemode() of the entry, here its type
\* letter and its r bit; "----------" when stat fails.
file_permissions(f, p) ==
  LET c == Resolve(f, p) IN
  IF c \notin DOMAIN f THEN "----------"
  ELSE IF f[c].kind = "dir"
    THEN (IF f[c].readable THEN "drwx" ELSE "d-wx")
  ELSE (IF f[c].readable THEN "-rw-" ELSE "--w-")

\* file_modified(path): the formatted st_mtime; "-" when stat fails.
file_modified(f, p) ==
  LET c == Resolve(f, p) IN
  IF c \notin DOMAIN f THEN [known |-> FALSE, mtime |-> 0]
  ELSE [known |-> TRUE, mtime |-> f[c].mtime]

\* Path.suffix: from the last "." of the name on, "" when the name has no
\* "." after its first character or ends with ".".
RECURSIVE LastDot(_, _)
LastDot(name, i) ==
  IF i <= 1 THEN 0 ELSE IF name[i] = 46 THEN i ELSE LastDot(name, i - 1)

PathSuffix(p) ==
  LET name == PathName(p)
      i == LastDot(name, Len(name))
  IN IF i = 0 \/ i = Len(name) THEN s_empty ELSE SubSeq(name, i, Len(name))

\* _file_icon(path): the icon of the lower-cased suffix, of which the table
\* is kept for ".c" and ".py"; every other suffix has the default icon.
file_icon(p) ==
  LET suffix == Lower(PathSuffix(p)) IN
  IF suffix = <<46, 99>> THEN "wrench"
  ELSE IF suffix = <<46, 112, 121>> THEN "snake"
  ELSE "page"

\* ------------------------------------------------------------ listing

\* A variant of SortKey that compares the names as they are spelled.
SortKeyCased(f, p) == [notdir |-> ~PathIsDir(f, p), lname |-> PathName(p)]

\* The sort key of refresh_table: (not p.is_dir(), p.name.lower()).
SortKey(f, p) == [notdir |-> ~PathIsDir(f, p), lname |-> Lower(PathName(p))]

\* k1 < k2 as Python compares the two tuples (False < True).
KeyLess(k1, k2) ==
  IF k1.notdir # k2.notdir THEN k2.notdir ELSE StrLess(k1.lname, k2.lname)

\* sorted(entries, key = ...): a stable sort, so entries with equal keys
\* keep the order in which iterdir() gave them.
RECURSIVE InsertByKey(_, _, _)
InsertByKey(f, e, out) ==
  IF out = <<>> THEN <<e>>
  ELSE IF KeyLess(SortKey(f, e), SortKey(f, out[1])) THEN <<e>> \o out
  ELSE <<out[1]>> \o InsertByKey(f, e, Tail(out))

RECURSIVE SortEntries(_, _)
SortEntries(f, es) ==
  IF es = <<>> THEN <<>>
  ELSE InsertByKey(f, es[Len(es)], SortEntries(f, SubSeq(es, 1, Len(es) - 1)))

\* A variant of Shown that skips nothing.
ShownAll(es, sh) == es

\* The entries refresh_table keeps: hidden ones are skipped unless
\* show_hidden is set.
RECURSIVE Shown(_, _)
Shown(es, sh) ==
  IF es = <<>> THEN <<>>
  ELSE IF ~sh /\ StartsWithDot(PathName(es[1])) THEN Shown(Tail(es), sh)
  ELSE <<es[1]>> \o Shown(Tail(es), sh)

\* The row refresh_table adds for one entry.
MakeRow(f, e) ==
  [icon     |-> IF PathIsDir(f, e) THEN "folder" ELSE file_icon(e),
   name     |-> PathName(e),
   size     |-> SizeCell(f, e),
   modified |-> file_modified(f, e),
   perms    |-> file_permissions(f, e)]

\* A message on the status bar: its text pattern and what is formatted
\* into it.
Msg(m, nm) ==
  [msg |-> m, name |-> nm, count |-> 0, dir |-> <<>>, hidden |-> FALSE]

\* f"{count} items in {current_dir}{hidden_note}"
ItemsMsg(n, cd, sh) ==
  [msg |-> "items", name |-> <<>>, count |-> n, dir |-> cd, hidden |-> sh]

\* A variant of RefreshResult that does not call table.clear() and adds
\* the rows to those the table has.
RefreshResultAppending(f, cd, sh, desc, oldEntries) ==
  LET it == IterDir(f, cd, desc)
      kept == oldEntries \o Shown(SortEntries(f, it.entries), sh)
  IN [exc |-> it.exc,
      rows |-> [i \in 1..Len(kept) |-> MakeRow(f, kept[i])],
      entries |-> kept,
      status |-> ItemsMsg(Len(kept), cd, sh)]

\* refresh_table() on filesystem f with the given current_dir, show_hidden
\* and _row_entries:
\*   exc = "none": the table and _row_entries are rebuilt, status is the
\*      item count;
\*   exc = "PermissionError": caught; the table stays cleared,
\*      _row_entries keeps its old value, status is the warning;
\*   any other exc leaves refresh_table and its caller.
RefreshResult(f, cd, sh, desc, oldEntries) ==
  LET it == IterDir(f, cd, desc) IN
  IF it.exc = "PermissionError"
    THEN [exc |-> "none", rows |-> <<>>, entries |-> oldEntries,
          status |-> Msg("Permission denied", <<>>)]
  ELSE IF it.exc # "none"
    THEN [exc |-> it.exc, rows |-> <<>>, entries |-> oldEntries,
          status |-> Msg("", <<>>)]
  ELSE LET kept == Shown(SortEntries(f, it.entries), sh)
       IN [exc |-> "none",
           rows |-> [i \in 1..Len(kept) |-> MakeRow(f, kept[i])],
           entries |-> kept,
           status |-> ItemsMsg(Len(kept), cd, sh)]

\* ------------------------------------------------------------ os, shutil

\* The result of a filesystem call: the exception it raised ("none" when it
\* returned) and the filesystem it left.
Ok(f) == [exc |-> "none", fs |-> f]

Raise(e, f) == [exc |-> e, fs |-> f]

Node(k, r, sz, mt) == [kind |-> k, readable |-> r, size |-> sz, mtime |-> mt]

\* f with the entry c added or replaced.
WithNode(f, c, n) == [q \in DOMAIN f \cup {c} |-> IF q = c THEN n ELSE f[q]]

\* f without the entries of S.
Without(f, S) == [q \in DOMAIN f \ S |-> f[q]]

\* A variant of Touch with exist_ok = True: an existing entry gets the
\* time of the call.
TouchExistOk(f, target) ==
  LET c == Resolve(f, target) IN
  IF c = NoPath THEN Raise("FileNotFoundError", f)
  ELSE IF c \in DOMAIN f THEN Ok(WithNode(f, c, [f[c] EXCEPT !.mtime = 1]))
  ELSE Ok(WithNode(f, c, Node("file", TRUE, 0, 1)))

\* Path.touch(exist_ok = False)
Touch(f, target) ==
  LET c == Resolve(f, target) IN
  IF c = NoPath THEN Raise("FileNotFoundError", f)
  ELSE IF c \in DOMAIN f THEN Raise("FileExistsError", f)
  ELSE Ok(WithNode(f, c, Node("file", TRUE, 0, 1)))

\* Path.mkdir(parents = False, exist_ok = False)
Mkdir(f, target) ==
  LET c == Resolve(f, target) IN
  IF c = NoPath THEN Raise("FileNotFoundError", f)
  ELSE IF c \in DOMAIN f THEN Raise("FileExistsError", f)
  ELSE Ok(WithNode(f, c, Node("dir", TRUE, 0, 1)))

\* The subtree at s moved to d (d and below must be free).
MoveSubtree(f, s, d) ==
  LET moved == SubtreeOf(f, s)
      newp(q) == d \o SubSeq(q, Len(s) + 1, Len(q))
      kept == DOMAIN f \ moved
  IN [q \in kept \cup {newp(m) : m \in moved} |->
        IF q \in kept THEN f[q]
        ELSE f[CHOOSE m \in moved : newp(m) = q]]

\* os.rename(src, dst), which Path.rename calls: an existing file, or an
\* existing empty directory, at dst is replaced without notice.
Rename(f, src, dst) ==
  LET s == Resolve(f, src)
      d == Resolve(f, dst)
  IN
  IF s \notin DOMAIN f \/ d = NoPath THEN Raise("FileNotFoundError", f)
  ELSE IF d = s THEN Ok(f)
  ELSE IF Len(d) >= Len(s) /\ SubSeq(d, 1, Len(s)) = s
    THEN Raise("OSError", f)                  \* into its own subtree
  ELSE IF Len(s) >= Len(d) /\ SubSeq(s, 1, Len(d)) = d
    THEN Raise("OSError", f)                  \* onto its own ancestor
  ELSE IF d \notin DOMAIN f THEN Ok(MoveSubtree(f, s, d))
  ELSE IF f[s].kind = "dir" /\ f[d].kind = "file"
    THEN Raise("NotADirectoryError", f)
  ELSE IF f[s].kind = "file" /\ f[d].kind = "dir"
    THEN Raise("IsADirectoryError", f)
  ELSE IF f[s].kind = "dir" /\ ChildrenOf(f, d) # {}
    THEN Raise("OSError", f)                  \* directory not empty
  ELSE Ok(MoveSubtree(Without(f, {d}), s, d))

\* Path.unlink()
Unlink(f, target) ==
  LET c == Resolve(f, target) IN
  IF c \notin DOMAIN f THEN Raise("FileNotFoundError", f)
  ELSE IF f[c].kind = "dir" THEN Raise("IsADirectoryError", f)
  ELSE Ok(Without(f, {c}))

\* shutil.rmtree on the directory c: its entries are removed in the order
\* scandir gives them, then c itself.  A directory that cannot be listed
\* raises, and what was removed before stays removed.
RECURSIVE RmTreeAt(_, _, _)
RECURSIVE RmEntries(_, _, _, _)
RmEntries(f, c, names, desc) ==
  IF names = <<>> THEN Ok(f)
  ELSE LET q == Append(c, names[1])
           r == IF f[q].kind = "dir" THEN RmTreeAt(f, q, desc)
                ELSE Ok(Without(f, {q}))
       IN IF r.exc # "none" THEN r
          ELSE RmEntries(r.fs, c, Tail(names), desc)

RmTreeAt(f, c, desc) ==
  IF ~f[c].readable THEN Raise("PermissionError", f)
  ELSE LET r == RmEntries(f, c, ScanDir(f, c, desc), desc)
       IN IF r.exc # "none" THEN r ELSE Ok(Without(r.fs, {c}))

RmTree(f, target, desc) ==
  LET c == Resolve(f, target) IN
  IF c \notin DOMAIN f THEN Raise("FileNotFoundError", f)
  ELSE IF f[c].kind # "dir" THEN Raise("NotADirectoryError", f)
  ELSE RmTreeAt(f, c, desc)

\* A variant of Copy2 without the SameFileError test: the destination is
\* opened for writing before the source is read, which empties the file.
Copy2Truncating(f, src, dst) ==
  LET s == Resolve(f, src)
      d0 == Resolve(f, dst)
      d == IF IsDirAt(f, d0) THEN Append(d0, PathName(src)) ELSE d0
  IN
  IF s \notin DOMAIN f \/ d = NoPath THEN Raise("FileNotFoundError", f)
  ELSE IF f[s].kind = "dir" \/ IsDirAt(f, d) THEN Raise("IsADirectoryError", f)
  ELSE IF ~f[s].readable THEN Raise("PermissionError", f)
  ELSE IF s = d THEN Ok(WithNode(f, d, Node("file", TRUE, 0, 1)))
  ELSE Ok(WithNode(f, d, f[s]))

\* shutil.copy2(src, dst): into dst when dst is a directory; an existing
\* file at the destination is overwritten; size, mtime and mode are
\* copied.
Copy2(f, src, dst) ==
  LET s == Resolve(f, src)
      d0 == Resolve(f, dst)
      d == IF IsDirAt(f, d0) THEN Append(d0, PathName(src)) ELSE d0
  IN
  IF s \notin DOMAIN f \/ d = NoPath THEN Raise("FileNotFoundError", f)
  ELSE IF s = d THEN Raise("SameFileError", f)
  ELSE IF f[s].kind = "dir" \/ IsDirAt(f, d) THEN Raise("IsADirectoryError", f)
  ELSE IF ~f[s].readable THEN Raise("PermissionError", f)
  ELSE Ok(WithNode(f, d, f[s]))

\* shutil.copytree(src, dst) with the canonical source s and destination
\* d: the entries of s are listed first, then d is made, then every entry
\* is copied.  A failing entry is noted and the others are still copied;
\* Error is raised at the end when any entry failed.  A copy that goes
\* deeper than the filesystem of the model can hold is cut off as
\* "TooDeep", which no command of the model issues.
RECURSIVE CopyTreeAt(_, _, _, _)
RECURSIVE CopyEntries(_, _, _, _, _, _)
CopyEntries(f, s, d, names, desc, failed) ==
  IF names = <<>> THEN (IF failed THEN Raise("Error", f) ELSE Ok(f))
  ELSE LET qs == Append(s, names[1])
           qd == Append(d, names[1])
           r == IF f[qs].kind = "dir" THEN CopyTreeAt(f, qs, qd, desc)
                ELSE IF ~f[qs].readable THEN Raise("PermissionError", f)
                ELSE Ok(WithNode(f, qd, f[qs]))
       IN IF r.exc = "TooDeep" THEN r
          ELSE CopyEntries(r.fs, s, d, Tail(names), desc,
                           failed \/ r.exc # "none")

CopyTreeAt(f, s, d, desc) ==
  IF Len(d) > MaxNodes THEN Raise("TooDeep", f)
  ELSE IF ~f[s].readable THEN Raise("PermissionError", f)
  ELSE IF d \in DOMAIN f THEN Raise("FileExistsError", f)
  ELSE CopyEntries(WithNode(f, d, f[s]), s, d, ScanDir(f, s, desc), desc,
                   FALSE)

CopyTree(f, src, dst, desc) ==
  LET s == Resolve(f, src)
      d == Resolve(f, dst)
  IN IF s \notin DOMAIN f \/ d = NoPath THEN Raise("FileNotFoundError", f)
     ELSE IF f[s].kind # "dir" THEN Raise("NotADirectoryError", f)
     ELSE CopyTreeAt(f, s, d, desc)

\* shutil.move(src, dst): into dst when dst is a directory, where an entry
\* of the same name must not exist; then os.rename.
Move(f, src, dst) ==
  LET s == Resolve(f, src)
      d0 == Resolve(f, dst)
  IN
  IF IsDirAt(f, d0) /\ d0 # s
    THEN LET d == Append(d0, PathName(src)) IN
         IF d \in DOMAIN f THEN Raise("Error", f)
         ELSE Rename(f, src, Append(dst, PathName(src)))
  ELSE Rename(f, src, dst)

\* Path.write_text(content) for a content of sz characters.
WriteText(f, target, sz) ==
  LET c == Resolve(f, target) IN
  IF c = NoPath THEN Raise("FileNotFoundError", f)
  ELSE IF IsDirAt(f, c) THEN Raise("IsADirectoryError", f)
  ELSE Ok(WithNode(f, c, Node("file",
                              IF c \in DOMAIN f THEN f[c].readable ELSE TRUE,
                              sz, 1)))

\* The result r of a filesystem call stays within the bounds of the model.
WithinBounds(r) ==
  /\ r.exc # "TooDeep"
  /\ Cardinality(DOMAIN r.fs) <= MaxNodes

\* ------------------------------------------------------------ state

VARIABLES
  fs,            \* the filesystem
  scan_desc,     \* the order in which the kernel lists a directory
  current_dir,   \* FileManagerApp.current_dir
  show_hidden,   \* FileManagerApp.show_hidden
  clipboard,     \* FileManagerApp.clipboard: {} is None, {p} is the Path p
  clipboard_op,  \* FileManagerApp.clipboard_op
  rows,          \* the rows of the DataTable #file_table
  row_entries,   \* FileManagerApp._row_entries (<<>> while it is not set)
  cursor_row,    \* DataTable.cursor_row, counted from 0
  status,        \* StatusBar.message
  tree,          \* the directories the DirectoryTree #dir_tree shows
  modal,         \* the modal screen on top and the entry its callback holds
  crashed,       \* an exception has left a handler: the app has ended
  last           \* what the last key press met: "handler" or "unbound"

vars == <<fs, scan_desc, current_dir, show_hidden, clipboard, clipboard_op,
          rows, row_entries, cursor_row, status, tree, modal, crashed, last>>

\* The filesystem the program is started on: the home directory holds the
\* directory a, the file B of 1536 bytes and the directory p, which the
\* user may not list.
InitialFs ==
  (Root :> Node("dir", TRUE, 0, 0)) @@
  (<<s_slash, s_a>> :> Node("dir", TRUE, 0, 0)) @@
  (<<s_slash, s_B>> :> Node("file", TRUE, 1536, 0)) @@
  (<<s_slash, s_p>> :> Node("dir", FALSE, 0, 0))

NoModal == [kind |-> "none", entry |-> <<>>]

\* DirectoryTree with path p: the root node p and, since the root is
\* expanded, a node for each directory directly inside p.  A directory the
\* tree cannot list has no child nodes.
TreeLoad(f, p, desc) ==
  LET it == IterDir(f, p, desc) IN
  {p} \cup {it.entries[i] : i \in {j \in 1..Len(it.entries) :
                                     PathIsDir(f, it.entries[j])}}

\* The app after compose() and on_mount() on the filesystem f: on_mount
\* assigns Path.home() to current_dir, which already holds it, so no
\* watcher runs and the table starts without rows.
Mounted(f) ==
  /\ fs = f
  /\ current_dir = Home
  /\ show_hidden = FALSE
  /\ clipboard = {}
  /\ clipboard_op = "copy"
  /\ rows = <<>>
  /\ row_entries = <<>>
  /\ cursor_row = 0
  /\ status = Msg("", <<>>)
  /\ tree = TreeLoad(f, Home, FALSE)
  /\ modal = NoModal
  /\ crashed = FALSE
  /\ last = "mount"

Init ==
  /\ scan_desc \in BOOLEAN
  /\ Mounted(InitialFs)

\* A variant of Idle in which a modal screen on top does not keep the
\* app's bindings and the widgets below it from being used.
IdleUnderModal == ~crashed

\* The app takes commands: no modal screen is on top and it has not ended.
Idle == modal.kind = "none" /\ ~crashed

\* The modal screen of the given kind is on top.
InModal(kind) == modal.kind = kind /\ ~crashed

\* The rows the user can put the table cursor on.
CursorRows == IF Len(rows) = 0 THEN {0} ELSE 0..(Len(rows) - 1)

\* A variant of selected_entry without the test of table.row_count.
selected_entry_unguarded(row_idx) ==
  IF row_idx < 0 \/ row_idx + 1 > Len(row_entries) THEN {}
  ELSE {row_entries[row_idx + 1]}

\* selected_entry() with the cursor on row_idx: None ({}) when the table
\* has no rows or _row_entries has no element at row_idx.
selected_entry(row_idx) ==
  IF row_idx < 0 \/ Len(rows) = 0 THEN {}
  ELSE IF row_idx + 1 > Len(row_entries) THEN {}
  ELSE {row_entries[row_idx + 1]}

\* self.current_dir = new_dir.  A reactive runs its watcher only when the
\* value changes: watch_current_dir then calls refresh_table() and points
\* the tree at new_dir.  An exception other than PermissionError leaves
\* refresh_table after table.clear() and ends the app.
SetCurrentDir(new_dir) ==
  IF new_dir = current_dir
    THEN UNCHANGED <<current_dir, rows, row_entries, cursor_row, status,
                     tree, crashed>>
  ELSE LET r == RefreshResult(fs, new_dir, show_hidden, scan_desc, row_entries)
       IN /\ current_dir' = new_dir
          /\ rows' = r.rows
          /\ row_entries' = r.entries
          /\ cursor_row' = 0
          /\ IF r.exc = "none"
               THEN /\ status' = r.status
                    /\ tree' = TreeLoad(fs, new_dir, scan_desc)
                    /\ crashed' = FALSE
               ELSE /\ UNCHANGED <<status, tree>>
                    /\ crashed' = TRUE

\* on_dir_selected for the event of the tree's node p.
dir_selected(p) ==
  /\ Idle
  /\ SetCurrentDir(p)
  /\ last' = "handler"
  /\ UNCHANGED <<fs, scan_desc, show_hidden, clipboard, clipboard_op, modal>>

\* on_dir_selected: the user picks a node of the directory tree.
on_dir_selected == \E p \in tree : dir_selected(p)

\* on_row_selected with the cursor on row i.
row_selected(i) ==
  /\ Idle
  /\ Len(rows) > 0
  /\ LET entry == selected_entry(i) IN
     IF entry # {} /\ \A e \in entry : PathIsDir(fs, e)
       THEN /\ \E e \in entry : SetCurrentDir(e)
            /\ last' = "handler"
       ELSE /\ cursor_row' = i
            /\ UNCHANGED <<current_dir, rows, row_entries, status, tree,
                           crashed>>
            /\ last' = "handler"
  /\ UNCHANGED <<fs, scan_desc, show_hidden, clipboard, clipboard_op, modal>>

\* on_row_selected: the user puts the cursor on a row and activates it.
on_row_selected == \E i \in CursorRows : row_selected(i)

\* action_go_up
action_go_up ==
  /\ Idle
  /\ LET parent == PathParent(current_dir) IN
     IF parent # current_dir
       THEN /\ SetCurrentDir(parent)
            /\ last' = "handler"
       ELSE /\ UNCHANGED <<current_dir, rows, row_entries, cursor_row,
                           status, tree, crashed>>
            /\ last' = "handler"
  /\ UNCHANGED <<fs, scan_desc, show_hidden, clipboard, clipboard_op, modal>>

\* ------------------------------------------------------------ commands

\* No set_status call (where one is optional).
Keep == Msg("<keep>", <<>>)

\* refresh_table() on filesystem f with show_hidden sh.  before is the
\* status set ahead of the call and after the one set when it has
\* returned (Keep: none).  An exception other than PermissionError leaves
\* refresh_table right after table.clear(): it ends the app, unless the
\* call stands inside a try whose handler reports it (caught).
RefreshTable(f, sh, before, after, caught) ==
  LET r == RefreshResult(f, current_dir, sh, scan_desc, row_entries) IN
  /\ rows' = r.rows
  /\ row_entries' = r.entries
  /\ cursor_row' = 0
  /\ crashed' = (r.exc # "none" /\ ~caught)
  /\ status' = IF r.exc # "none"
                 THEN (IF caught THEN Msg("Error", <<>>)
                       ELSE IF before = Keep THEN status ELSE before)
               ELSE IF after = Keep THEN r.status ELSE after

\* action_refresh
action_refresh ==
  /\ Idle
  /\ RefreshTable(fs, show_hidden, Keep, Msg("Refreshed.", <<>>), FALSE)
  /\ last' = "handler"
  /\ UNCHANGED <<fs, scan_desc, current_dir, show_hidden, clipboard,
                 clipboard_op, tree, modal>>

\* action_toggle_hidden
action_toggle_hidden ==
  /\ Idle
  /\ show_hidden' = ~show_hidden
  /\ RefreshTable(fs, ~show_hidden, Keep, Keep, FALSE)
  /\ last' = "handler"
  /\ UNCHANGED <<fs, scan_desc, current_dir, clipboard, clipboard_op, tree,
                 modal>>

\* push_screen(M, handle) with the cursor on row i: the modal screen M is
\* on top until it is dismissed; entry is what the callback has captured.
PushScreen(kind, entry, i) ==
  /\ modal' = [kind |-> kind, entry |-> entry]
  /\ cursor_row' = i
  /\ last' = "handler"
  /\ UNCHANGED <<fs, scan_desc, current_dir, show_hidden, clipboard,
                 clipboard_op, rows, row_entries, status, tree, crashed>>

\* A handler, run with the cursor on row i, that only writes the status
\* bar.
Reject(m, i) ==
  /\ status' = m
  /\ cursor_row' = i
  /\ last' = "handler"
  /\ UNCHANGED <<fs, scan_desc, current_dir, show_hidden, clipboard,
                 clipboard_op, rows, row_entries, tree, modal, crashed>>

\* A variant of NoEffect in which the table is rebuilt, so that the
\* cursor is back on the first row.
NoEffectButCursor(met) ==
  /\ last' = met
  /\ cursor_row' = 0
  /\ UNCHANGED <<fs, scan_desc, current_dir, show_hidden, clipboard,
                 clipboard_op, rows, row_entries, status, tree, crashed>>

\* A handler or callback that changes nothing on the app.
NoEffect(met) ==
  /\ last' = met
  /\ UNCHANGED <<fs, scan_desc, current_dir, show_hidden, clipboard,
                 clipboard_op, rows, row_entries, cursor_row, status, tree,
                 crashed>>

\* action_goto: the dialog is opened.
action_goto ==
  /\ Idle
  /\ PushScreen("goto", <<>>, cursor_row)

\* action_goto.handle(None): Cancel.
goto_cancel ==
  /\ InModal("goto")
  /\ modal' = NoModal
  /\ NoEffect("handler")

\* The test action_goto.handle puts on the path it was given: p.is_dir().
\* A variant of GotoAccepts that takes every path that exists.
GotoAcceptsExisting(f, p) == PathExists(f, p)

GotoAccepts(f, p) == PathIsDir(f, p)

\* The path action_goto.handle makes of the input raw.
GotoPath(raw) == ExpandUser(ParsePath(Strip(raw)))

\* action_goto.handle(result) when the dialog is confirmed with raw in its
\* input.
goto_submit(raw) ==
  /\ InModal("goto")
  /\ modal' = NoModal
  /\ LET result == Strip(raw)
         p == GotoPath(raw)
     IN IF result = s_empty
          THEN NoEffect("handler")
        ELSE IF GotoAccepts(fs, p)
          THEN /\ SetCurrentDir(p)
               /\ last' = "handler"
               /\ UNCHANGED <<fs, scan_desc, show_hidden, clipboard,
                              clipboard_op>>
        ELSE /\ status' = Msg("Not a directory", result)
             /\ last' = "handler"
             /\ UNCHANGED <<fs, scan_desc, current_dir, show_hidden,
                            clipboard, clipboard_op, rows, row_entries,
                            cursor_row, tree, crashed>>

\* What the "Go to Path" dialog is confirmed with: one of the inputs G, or
\* the path the dialog shows as its default.
GotoDialogInputs(G) == G \cup {PathStr(current_dir)}

\* action_goto.handle(result)
goto_handle(G) == \E raw \in GotoDialogInputs(G) : goto_submit(raw)

\* A callback that ran a filesystem call r and, when it returned, calls
\* refresh_table() and then reports done, all inside one try:
\* FileExistsError is reported as exists, any other exception, of the
\* call or of refresh_table, as an error.
AfterCall(r, done, exists) ==
  /\ fs' = r.fs
  /\ WithinBounds(r)
  /\ IF r.exc = "none"
       THEN /\ RefreshTable(r.fs, show_hidden, Keep, done, TRUE)
            /\ last' = "handler"
     ELSE IF r.exc = "FileExistsError" /\ exists # Keep
       THEN /\ status' = exists
            /\ UNCHANGED <<rows, row_entries, cursor_row, crashed>>
            /\ last' = "handler"
     ELSE /\ status' = Msg("Error", <<>>)
          /\ UNCHANGED <<rows, row_entries, cursor_row, crashed>>
          /\ last' = "handler"
  /\ UNCHANGED <<scan_desc, current_dir, show_hidden, clipboard, clipboard_op,
                 tree>>

\* action_new_file: the dialog is opened.
action_new_file ==
  /\ Idle
  /\ PushScreen("new_file", <<>>, cursor_row)

new_file_cancel ==
  /\ InModal("new_file")
  /\ modal' = NoModal
  /\ NoEffect("handler")

\* action_new_file.handle(result) when the dialog is confirmed with raw in
\* its input.
new_file_submit(raw) ==
  /\ InModal("new_file")
  /\ modal' = NoModal
  /\ LET result == Strip(raw) IN
     IF result = s_empty THEN NoEffect("handler")
     ELSE AfterCall(Touch(fs, JoinPath(current_dir, result)),
                    Msg("Created file", result),
                    Msg("File already exists", result))

\* action_new_file.handle(result), on one of the inputs N.
new_file_handle(N) == \E raw \in N : new_file_submit(raw)

\* action_new_dir: the dialog is opened.
action_new_dir ==
  /\ Idle
  /\ PushScreen("new_dir", <<>>, cursor_row)

new_dir_cancel ==
  /\ InModal("new_dir")
  /\ modal' = NoModal
  /\ NoEffect("handler")

\* action_new_dir.handle(result) when the dialog is confirmed with raw in
\* its input.
new_dir_submit(raw) ==
  /\ InModal("new_dir")
  /\ modal' = NoModal
  /\ LET result == Strip(raw) IN
     IF result = s_empty THEN NoEffect("handler")
     ELSE AfterCall(Mkdir(fs, JoinPath(current_dir, result)),
                    Msg("Created directory", result),
                    Msg("Directory already exists", result))

\* action_new_dir.handle(result), on one of the inputs N.
new_dir_handle(N) == \E raw \in N : new_dir_submit(raw)

\* A command on the selected entry: without one only the status is set,
\* otherwise the dialog is opened with the entry held by its callback.
OnSelected(kind) ==
  \E i \in CursorRows :
    IF selected_entry(i) = {}
      THEN Reject(Msg("No item selected.", <<>>), i)
    ELSE \E e \in selected_entry(i) : PushScreen(kind, e, i)

\* action_rename
action_rename ==
  /\ Idle
  /\ OnSelected("rename")

rename_cancel ==
  /\ InModal("rename")
  /\ modal' = NoModal
  /\ NoEffect("handler")

\* A variant of RenameSkipped that skips the empty name only.
RenameSkippedIfEmpty(result, name) == result = s_empty

\* not (result and result != entry.name)
RenameSkipped(result, name) == result = s_empty \/ result = name

\* action_rename.handle(result) when the dialog is confirmed with raw in
\* its input.
rename_submit(raw) ==
  /\ InModal("rename")
  /\ modal' = NoModal
  /\ LET entry  == modal.entry
         result == Strip(raw) IN
     IF RenameSkipped(result, PathName(entry))
       THEN NoEffect("handler")
     ELSE AfterCall(Rename(fs, entry, JoinPath(current_dir, result)),
                    Msg("Renamed to", result), Keep)

\* What the rename dialog is confirmed with: one of the inputs N, or the
\* name the dialog shows as its default.
RenameInputs(N) == N \cup {PathName(modal.entry)}

\* action_rename.handle(result)
rename_handle(N) == \E raw \in RenameInputs(N) : rename_submit(raw)

\* action_delete
action_delete ==
  /\ Idle
  /\ OnSelected("delete")

\* action_delete.handle(False): No.
delete_cancel ==
  /\ InModal("delete")
  /\ modal' = NoModal
  /\ NoEffect("handler")

\* action_delete.handle(True): Yes.
delete_handle ==
  /\ InModal("delete")
  /\ modal' = NoModal
  /\ LET entry == modal.entry IN
     AfterCall(IF PathIsDir(fs, entry) THEN RmTree(fs, entry, scan_desc)
               ELSE Unlink(fs, entry),
               Msg("Deleted", PathName(entry)), Keep)

\* self.clipboard = value: watch_clipboard writes the status when the
\* value changes, from the clipboard_op of that moment.
ClipboardStatus(value) ==
  IF value = clipboard THEN status
  ELSE IF value = {} THEN Msg("", <<>>)
  ELSE IF clipboard_op = "cut"
    THEN Msg("Cut", PathName(CHOOSE e \in value : TRUE))
  ELSE Msg("Copied to clipboard", PathName(CHOOSE e \in value : TRUE))

\* action_copy_item
action_copy_item ==
  /\ Idle
  /\ \E i \in CursorRows :
       IF selected_entry(i) = {}
         THEN Reject(Msg("No item selected.", <<>>), i)
       ELSE /\ clipboard' = selected_entry(i)
            /\ clipboard_op' = "copy"
            /\ status' = ClipboardStatus(selected_entry(i))
            /\ cursor_row' = i
            /\ last' = "handler"
            /\ UNCHANGED <<fs, scan_desc, current_dir, show_hidden, rows,
                           row_entries, tree, modal, crashed>>

\* The user asks for a command that BINDINGS has no key for, which of the
\* commands the program is described with is "cut": no handler runs.
unbound_command ==
  /\ Idle
  /\ UNCHANGED modal
  /\ NoEffect("unbound")

\* The filesystem call of action_paste_item for the operation op.
PasteCall(f, op, src, dst, desc) ==
  IF op = "cut" THEN Move(f, src, dst)
  ELSE IF PathIsDir(f, src) THEN CopyTree(f, src, dst, desc)
  ELSE Copy2(f, src, dst)

\* A variant of ClipboardAfterPaste that empties the clipboard after every
\* paste.
ClipboardClearedAfterPaste(op, clip) == {}

\* The clipboard action_paste_item leaves after a call that returned.
ClipboardAfterPaste(op, clip) == IF op = "cut" THEN {} ELSE clip

\* A variant of SameLocation that lets every paste through.
NeverSameLocation(dst, src) == FALSE

\* The test action_paste_item puts on the destination: dst == src, the
\* equality of pathlib, which compares the parts as they are spelled.
SameLocation(dst, src) == dst = src

\* action_paste_item
action_paste_item ==
  /\ Idle
  /\ IF clipboard = {}
       THEN Reject(Msg("Clipboard is empty.", <<>>), cursor_row)
     ELSE LET src == CHOOSE e \in clipboard : TRUE
              dst == Append(current_dir, PathName(src))
          IN
          IF SameLocation(dst, src)
            THEN Reject(Msg("Source and destination are the same.", <<>>),
                        cursor_row)
          ELSE
            LET r == PasteCall(fs, clipboard_op, src, dst, scan_desc)
                done == IF clipboard_op = "cut"
                          THEN Msg("Moved", PathName(src))
                        ELSE Msg("Copied", PathName(src))
            IN
            /\ fs' = r.fs
            /\ WithinBounds(r)
            /\ UNCHANGED <<scan_desc, current_dir, show_hidden,
                           clipboard_op, tree, modal>>
            /\ IF r.exc = "none"
                 THEN /\ clipboard' = ClipboardAfterPaste(clipboard_op,
                                                          clipboard)
                      /\ RefreshTable(r.fs, show_hidden, done, Keep, TRUE)
                      /\ last' = "handler"
               ELSE /\ status' = Msg("Error", <<>>)
                    /\ UNCHANGED <<clipboard, rows, row_entries, cursor_row,
                                   crashed>>
                    /\ last' = "handler"

\* action_file_info: the InfoModal is opened; it has no callback.
action_file_info ==
  /\ Idle
  /\ OnSelected("info")

\* InfoModal.close
info_close ==
  /\ InModal("info")
  /\ modal' = NoModal
  /\ NoEffect("handler")

\* action_edit_file
action_edit_file ==
  /\ Idle
  /\ \E i \in CursorRows :
       LET entry == selected_entry(i) IN
       IF entry = {}
         THEN Reject(Msg("No item selected.", <<>>), i)
       ELSE IF \A e \in entry : PathIsDir(fs, e)
         THEN Reject(Msg("Cannot edit a directory.", <<>>), i)
       ELSE \E e \in entry : PushScreen("edit", e, i)

\* EditModal.action_close_editor, then action_edit_file.handle(None).
edit_cancel ==
  /\ InModal("edit")
  /\ modal' = NoModal
  /\ NoEffect("handler")

\* The sizes of the texts the user may save from the editor.
EditSizes == {7}

\* EditModal.action_save, then action_edit_file.handle(message): the
\* message is put on the status bar and refresh_table() is called.
edit_save ==
  /\ InModal("edit")
  /\ modal' = NoModal
  /\ \E sz \in EditSizes :
       LET r == WriteText(fs, modal.entry, sz)
           message == IF r.exc = "none"
                        THEN Msg("Saved", PathName(modal.entry))
                      ELSE Msg("Save error", <<>>)
       IN /\ fs' = r.fs
          /\ RefreshTable(r.fs, show_hidden, message, Keep, FALSE)
          /\ last' = "handler"
  /\ UNCHANGED <<scan_desc, current_dir, show_hidden, clipboard, clipboard_op,
                 tree>>

\* ------------------------------------------------------------ specifications

\* Every handler, with the inputs G of the "Go to Path" dialog and the
\* inputs N of the dialogs that ask for a name.
NextWith(G, N) ==
  \/ on_dir_selected
  \/ on_row_selected
  \/ action_go_up
  \/ action_refresh
  \/ action_toggle_hidden
  \/ action_goto
  \/ goto_cancel
  \/ goto_handle(G)
  \/ action_new_file
  \/ new_file_cancel
  \/ new_file_handle(N)
  \/ action_new_dir
  \/ new_dir_cancel
  \/ new_dir_handle(N)
  \/ action_rename
  \/ rename_cancel
  \/ rename_handle(N)
  \/ action_delete
  \/ delete_cancel
  \/ delete_handle
  \/ action_copy_item
  \/ unbound_command
  \/ action_paste_item
  \/ action_file_info
  \/ info_close
  \/ action_edit_file
  \/ edit_cancel
  \/ edit_save

\* What the user types into the "Go to Path" dialog: "", "~", " /B".
GotoInputs == {s_empty, s_tilde, <<32, 47, 66>>}

\* What the user types into a dialog that asks for a name: "", "a", " .c".
NameInputs == {s_empty, s_a, <<32>> \o s_hid}

Next == NextWith(GotoInputs, NameInputs)

\* The program driven with absolute paths.
Spec == Init /\ [][Next]_vars

\* What the user types into the "Go to Path" dialog when navigating: "",
\* "~", " /B", "/a/..".
NavGotoInputs == GotoInputs \cup {<<47, 97, 47, 46, 46>>}

\* Navigation, with the commands that remove or rename what a path or a
\* tree node names.
NextNav ==
  \/ on_dir_selected
  \/ on_row_selected
  \/ action_go_up
  \/ action_refresh
  \/ action_toggle_hidden
  \/ action_goto
  \/ goto_cancel
  \/ goto_handle(NavGotoInputs)
  \/ action_rename
  \/ rename_cancel
  \/ rename_handle({<<32>> \o s_hid})
  \/ action_delete
  \/ delete_cancel
  \/ delete_handle

SpecNav == Init /\ [][NextNav]_vars

\* The clipboard commands, with navigation by the table and the commands
\* that rebuild the listing or remove the clipboard's source.
NextClip ==
  \/ on_row_selected
  \/ action_go_up
  \/ action_refresh
  \/ action_toggle_hidden
  \/ action_copy_item
  \/ unbound_command
  \/ action_paste_item
  \/ action_delete
  \/ delete_cancel
  \/ delete_handle

SpecClip == Init /\ [][NextClip]_vars

\* What the user types into a dialog that asks for a name when the
\* filesystem is changed: "", " .c".
MutNames == {s_empty, <<32>> \o s_hid}

\* The commands that change the filesystem, with navigation by the table.
NextMut ==
  \/ on_row_selected
  \/ action_go_up
  \/ action_new_file
  \/ new_file_cancel
  \/ new_file_handle(MutNames)
  \/ action_new_dir
  \/ new_dir_cancel
  \/ new_dir_handle(MutNames)
  \/ action_rename
  \/ rename_cancel
  \/ rename_handle(MutNames)
  \/ action_delete
  \/ delete_cancel
  \/ delete_handle
  \/ action_copy_item
  \/ action_paste_item
  \/ action_edit_file
  \/ edit_cancel
  \/ edit_save

SpecMut == Init /\ [][NextMut]_vars

\* What the user types into the "Go to Path" dialog when paths relative to
\* the working directory are used: "", "a", "/a/..".
GotoRelInputs == {s_empty, s_a, <<47, 97, 47, 46, 46>>}

\* The clipboard commands with directories reached by relative paths and
\* paths through "..".
NextRel ==
  \/ on_row_selected
  \/ action_go_up
  \/ action_goto
  \/ goto_cancel
  \/ goto_handle(GotoRelInputs)
  \/ action_copy_item
  \/ action_paste_item

SpecRel == Init /\ [][NextRel]_vars

\* What the user types into the "Go to Path" dialog when the dialogs are
\* exercised: "", "/a", " /B".
DialogGotoInputs == {s_empty, <<47, 97>>, <<32, 47, 66>>}

\* The commands that ask in a dialog, each with its dialog confirmed and
\* cancelled, with the commands that set show_hidden and the clipboard.
NextDialog ==
  \/ action_toggle_hidden
  \/ action_copy_item
  \/ action_goto
  \/ goto_cancel
  \/ goto_handle(DialogGotoInputs)
  \/ action_new_file
  \/ new_file_cancel
  \/ new_file_handle(MutNames)
  \/ action_new_dir
  \/ new_dir_cancel
  \/ new_dir_handle(MutNames)
  \/ action_rename
  \/ rename_cancel
  \/ rename_handle(MutNames)
  \/ action_delete
  \/ delete_cancel
  \/ delete_handle
  \/ action_edit_file
  \/ edit_cancel
  \/ edit_save

SpecDialog == Init /\ [][NextDialog]_vars

\* Navigation by the tree, by the table and by path, with the dialogs of
\* go-to-path, rename and delete and the commands that set show_hidden
\* and the clipboard.
NextSerial ==
  \/ on_dir_selected
  \/ on_row_selected
  \/ action_go_up
  \/ action_toggle_hidden
  \/ action_copy_item
  \/ action_goto
  \/ goto_cancel
  \/ goto_handle(GotoInputs)
  \/ action_rename
  \/ rename_cancel
  \/ rename_handle(MutNames)
  \/ action_delete
  \/ delete_cancel
  \/ delete_handle

SpecSerial == Init /\ [][NextSerial]_vars

\* What a home directory may hold when the program is started on it: the
\* directories a and .c, the files B and b, whose names differ in case
\* only, the file P, the directory p that the user may not list, and
\* entries inside a and p.
BuildCandidates ==
  (<<s_slash, s_a>> :> Node("dir", TRUE, 0, 0)) @@
  (<<s_slash, s_hid>> :> Node("dir", TRUE, 0, 0)) @@
  (<<s_slash, s_B>> :> Node("file", TRUE, 1536, 0)) @@
  (<<s_slash, s_b>> :> Node("file", TRUE, 0, 0)) @@
  (<<s_slash, s_P>> :> Node("file", TRUE, 7, 0)) @@
  (<<s_slash, s_p>> :> Node("dir", FALSE, 0, 0)) @@
  (<<s_slash, s_a, s_hid>> :> Node("file", TRUE, 0, 0)) @@
  (<<s_slash, s_a, s_B>> :> Node("file", TRUE, 0, 0)) @@
  (<<s_slash, s_p, s_b>> :> Node("file", TRUE, 0, 0))

\* The filesystems made of the home directory and some of the candidates,
\* each with the directory it lies in.
BuildFilesystems ==
  {f \in {(Root :> Node("dir", TRUE, 0, 0)) @@
            [q \in S |-> BuildCandidates[q]] : S \in SUBSET DOMAIN BuildCandidates} :
     /\ Cardinality(DOMAIN f) <= MaxNodes
     /\ \A q \in DOMAIN f : q = Root \/ PathParent(q) \in DOMAIN f}

InitBuild ==
  /\ scan_desc \in BOOLEAN
  /\ \E f \in BuildFilesystems : Mounted(f)

\* The commands that build the listing, on a filesystem that stays as it
\* is.
NextBuild ==
  \/ on_dir_selected
  \/ on_row_selected
  \/ action_go_up
  \/ action_refresh
  \/ action_toggle_hidden

SpecBuild == InitBuild /\ [][NextBuild]_vars

\* ------------------------------------------------------------ properties

\* p names an existing directory the user may list.
ReadableDir(f, p) == IterDir(f, p, FALSE).exc = "none"

\* C1: in every reachable state current_dir denotes an existing directory
\* that the user may list.
C1_ExistingReadable == ReadableDir(fs, current_dir)

\* The messages with which a command reports that it has done its work.
SuccessMsgs ==
  {"Created file", "Created directory", "Renamed to", "Deleted", "Copied",
   "Moved", "Saved"}

\* The messages with which a command reports that it has not.
FailureMsgs ==
  {"Error", "File already exists", "Directory already exists", "Save error",
   "Clipboard is empty.", "Source and destination are the same."}

\* A step in which a command does its work: a paste, or the answer to the
\* dialog of new file, new directory, rename, delete or edit, other than
\* an answer that is dropped (Cancel, an empty or unchanged name).
CommandRuns ==
  \/ action_paste_item
  \/ /\ modal.kind \in {"new_file", "new_dir", "rename", "delete", "edit"}
     /\ modal'.kind = "none"
     /\ (fs' # fs \/ status' # status)

\* C2, as stated: a command ends either with the filesystem changed, the
\* listing rebuilt from the changed directory and its success message on
\* the status bar, or with the filesystem and the listing unchanged and a
\* failure message on the status bar.
C2_AllOrNothing ==
  [][CommandRuns =>
       \/ /\ fs' # fs
          /\ rows' = RefreshResult(fs', current_dir', show_hidden', scan_desc',
                                   row_entries).rows
          /\ status'.msg \in SuccessMsgs
       \/ /\ fs' = fs
          /\ rows' = rows
          /\ row_entries' = row_entries
          /\ status'.msg \in FailureMsgs]_vars

\* A paste that went through: the copy or move call and the rebuild of the
\* listing returned.
PasteSucceeds ==
  /\ action_paste_item
  /\ clipboard # {}
  /\ status'.msg \notin FailureMsgs

\* C3: a successful paste of a clipboard that holds X with the operation
\* "copy" leaves X and "copy" on the clipboard, and so does every step
\* that moves current_dir, so that X can be pasted again and elsewhere.
C3_CopyPersists ==
  [][(clipboard # {} /\ clipboard_op = "copy"
        /\ (PasteSucceeds \/ current_dir' # current_dir))
       => UNCHANGED <<clipboard, clipboard_op>>]_vars

\* C3, witness: the clipboard holds X with "copy", current_dir is not X's
\* directory and holds the copy of X that a paste has made.
C3_Witness ==
  /\ clipboard # {}
  /\ clipboard_op = "copy"
  /\ \E x \in clipboard :
       LET dst == Append(current_dir, PathName(x)) IN
       /\ dst # x
       /\ PathExists(fs, x)
       /\ PathExists(fs, dst)
       /\ Resolve(fs, dst) \notin DOMAIN InitialFs
  /\ status.msg = "items"

\* C5: the Copy command and the Cut command each put the selected entry
\* and their own operation on the clipboard, whatever it held, and leave
\* the filesystem, current_dir, show_hidden and the listing alone; without
\* a selected entry they leave the clipboard as it is.
C5_CopyCutRecord ==
  [][/\ action_copy_item =>
          /\ IF selected_entry(cursor_row') # {}
               THEN /\ clipboard' = selected_entry(cursor_row')
                    /\ clipboard_op' = "copy"
             ELSE UNCHANGED <<clipboard, clipboard_op>>
          /\ UNCHANGED <<fs, current_dir, show_hidden, rows, row_entries>>
     /\ unbound_command =>
          /\ IF selected_entry(cursor_row) # {}
               THEN /\ clipboard' = selected_entry(cursor_row)
                    /\ clipboard_op' = "cut"
             ELSE UNCHANGED <<clipboard, clipboard_op>>
          /\ UNCHANGED <<fs, current_dir, show_hidden, rows, row_entries>>
    ]_vars

\* What action_paste_item reports when it takes source and destination
\* for the same.
SameMsg == Msg("Source and destination are the same.", <<>>)

\* C6: a paste while the clipboard holds an entry X of current_dir is
\* rejected with the "same location" message; the filesystem, the
\* clipboard and the listing stay as they are.
C6_PasteSameLocation ==
  [][(action_paste_item
        /\ \E x \in clipboard : PathParent(x) = current_dir /\ x # current_dir)
       => /\ status' = SameMsg
          /\ UNCHANGED <<fs, clipboard, clipboard_op, rows, row_entries>>]_vars

\* C6, witness: the paste of an entry copied in current_dir has been
\* rejected.
C6_Witness ==
  /\ status = SameMsg
  /\ \E x \in clipboard : PathParent(x) = current_dir /\ PathExists(fs, x)
  /\ Len(rows) > 0

\* The destination of a paste is the object the clipboard names, however
\* the two paths are spelled.
PasteOntoSource ==
  /\ action_paste_item
  /\ \E x \in clipboard :
       /\ PathExists(fs, x)
       /\ Resolve(fs, Append(current_dir, PathName(x))) = Resolve(fs, x)

\* C7: however current_dir is spelled, a paste whose destination is the
\* object the clipboard names is rejected with the "same location"
\* message, without a copy or move call.
C7_SameObjectRejected ==
  [][PasteOntoSource => status' = SameMsg]_vars

\* C7, amended: such a paste is rejected with the "same location" message
\* only when the destination is spelled as the clipboard's path is;
\* otherwise the copy call is made, fails on the destination being the
\* source, and "Error" is reported.  In both cases the filesystem, the
\* clipboard and the listing stay as they are.
C7_SameSpellingRejected ==
  [][PasteOntoSource =>
       /\ \E x \in clipboard :
            status' = IF Append(current_dir, PathName(x)) = x THEN SameMsg
                      ELSE Msg("Error", <<>>)
       /\ UNCHANGED <<fs, clipboard, clipboard_op, rows, row_entries>>]_vars

\* C7, witness: a paste onto the clipboard's source under another spelling
\* has been made and has failed.
C7_Witness ==
  /\ status = Msg("Error", <<>>)
  /\ \E x \in clipboard :
       /\ PathExists(fs, x)
       /\ Append(current_dir, PathName(x)) # x
       /\ Resolve(fs, Append(current_dir, PathName(x))) = Resolve(fs, x)

\* The names of the entries directly inside directory p that a listing
\* with show_hidden sh is to hold.
ExpectedNames(f, p, sh) ==
  {nm \in {PathName(q) : q \in ChildrenOf(f, Resolve(f, p))} :
     sh \/ ~StartsWithDot(nm)}

\* The rows of a listing whose names do not start with a dot.
RECURSIVE VisibleRows(_)
VisibleRows(rs) ==
  IF rs = <<>> THEN <<>>
  ELSE IF StartsWithDot(rs[1].name) THEN VisibleRows(Tail(rs))
  ELSE <<rs[1]>> \o VisibleRows(Tail(rs))

\* A refresh or a toggle of show_hidden builds a listing that holds each
\* name of ExpectedNames once and, on a toggle from a built listing,
\* agrees with the listing before on the rows both hold.
HiddenFilter ==
  /\ {rows'[i].name : i \in 1..Len(rows')}
       = ExpectedNames(fs, current_dir, show_hidden')
  /\ Len(rows') = Cardinality(ExpectedNames(fs, current_dir, show_hidden'))
  /\ (action_toggle_hidden /\ status.msg \in {"items", "Refreshed."})
       => IF show_hidden' THEN VisibleRows(rows') = rows
          ELSE rows' = VisibleRows(rows)

\* C8: for every directory, the listing built without show_hidden holds
\* exactly the entries of the directory whose names do not start with a
\* dot, the one built with show_hidden holds them all, and the two agree
\* on the order and the fields of the rows both hold.
C8_HiddenFilter ==
  [][(action_refresh \/ action_toggle_hidden) => HiddenFilter]_vars

\* C8, amended: this holds for every directory the user may list; for a
\* directory the user may not list both listings are empty.
C8_HiddenFilterReadable ==
  [][(action_refresh \/ action_toggle_hidden) =>
       IF ReadableDir(fs, current_dir) THEN HiddenFilter
       ELSE rows' = <<>>]_vars

\* C8, witness: a listing without the hidden entries has been built for a
\* directory that has some, and it holds a directory and a file.
C8_Witness ==
  /\ ~show_hidden
  /\ status.msg = "items"
  /\ Len(rows) >= 2
  /\ Cardinality(ExpectedNames(fs, current_dir, TRUE)) > Len(rows)
  /\ \E i, j \in 1..Len(rows) : rows[i].icon = "folder" /\ rows[j].icon # "folder"

\* C9: in every listing the directories stand before the files, and
\* within the directories and within the files the names ascend when
\* compared without regard to case.
C9_Ordering ==
  \A i, j \in 1..Len(rows) :
    i < j =>
      /\ ~(rows[i].icon # "folder" /\ rows[j].icon = "folder")
      /\ ((rows[i].icon = "folder") = (rows[j].icon = "folder"))
           => ~StrLess(Lower(rows[j].name), Lower(rows[i].name))

\* C9, witness: a listing with a directory and three files, two of them
\* with names that differ in case only, and a file with a lower-case name
\* standing before one with an upper-case name.
C9_Witness ==
  /\ Len(rows) = 4
  /\ rows[1].icon = "folder"
  /\ \A i \in 2..4 : rows[i].icon # "folder"
  /\ Lower(rows[2].name) = Lower(rows[3].name)
  /\ rows[2].name # rows[3].name
  /\ StrLess(rows[4].name, rows[3].name)

\* C10: a refresh that follows a refresh, the filesystem being as it was,
\* builds the same listing in the same order; every refresh leaves
\* current_dir, show_hidden and the clipboard as they are.
C10_RefreshIdempotent ==
  [][action_refresh =>
       /\ UNCHANGED <<current_dir, show_hidden, clipboard, clipboard_op>>
       /\ status.msg = "Refreshed." =>
            (rows' = rows /\ row_entries' = row_entries)]_vars

\* C10, witness: a refresh has been made with entries listed, something
\* on the clipboard and the cursor off the first row, so that a second
\* refresh is a step that changes the state.
C10_Witness ==
  /\ status.msg = "Refreshed."
  /\ Len(rows) >= 2
  /\ clipboard # {}
  /\ cursor_row > 0

\* The listing that toggle-hidden builds from the state a step has
\* reached: refresh_table() run with the opposite show_hidden.
RowsOfNextToggle ==
  RefreshResult(fs', current_dir', ~show_hidden', scan_desc',
                row_entries').rows

\* C11: toggle-hidden flips show_hidden and rebuilds the listing without
\* ending the app, it leaves the filesystem, current_dir and the
\* clipboard as they are, and the toggle that follows it, the filesystem
\* being as it was, builds the listing that was shown before the first.
C11_ToggleRoundTrip ==
  [][action_toggle_hidden =>
       /\ show_hidden' = ~show_hidden
       /\ ~crashed'
       /\ UNCHANGED <<fs, current_dir, clipboard, clipboard_op>>
       /\ RowsOfNextToggle = rows]_vars

\* C12: when the rename dialog is confirmed with a name that is empty
\* once stripped, or that is the captured entry's own name, the
\* filesystem, the listing, current_dir and the clipboard stay as they
\* are; the status stays too, since no call is made whose outcome would
\* be reported.
C12_RenameNoOp ==
  [][\A raw \in RenameInputs(MutNames) :
       (/\ rename_submit(raw)
        /\ \/ Strip(raw) = s_empty
           \/ Strip(raw) = PathName(modal.entry))
       => UNCHANGED <<fs, rows, row_entries, current_dir, clipboard,
                      clipboard_op, status>>]_vars

\* C12, witness: the rename dialog is open on the file B, which is listed
\* below the first row, with something on the clipboard; confirming it
\* as it stands submits the name B.
C12_Witness ==
  /\ InModal("rename")
  /\ PathName(modal.entry) = s_B
  /\ cursor_row > 0
  /\ Len(rows) > cursor_row
  /\ row_entries[cursor_row + 1] = modal.entry
  /\ clipboard # {}

\* A dialog is dismissed without confirmation: No in the delete dialog,
\* Cancel or Esc in the others.
DialogCancelled ==
  \/ goto_cancel
  \/ new_file_cancel
  \/ new_dir_cancel
  \/ rename_cancel
  \/ delete_cancel
  \/ edit_cancel

\* C13: a dialog that is declined or cancelled leaves the filesystem, the
\* listing, the cursor, current_dir, show_hidden, the clipboard and the
\* status as they are, with the cursor still on the entry the command
\* captured; opening the dialog changed none of them either, the cursor
\* being where the user had put it.
C13_CancelNoEffect ==
  [][/\ DialogCancelled =>
          /\ UNCHANGED <<fs, rows, row_entries, cursor_row, current_dir,
                         show_hidden, clipboard, clipboard_op, status>>
          /\ modal.kind \in {"rename", "delete", "edit"}
               => selected_entry(cursor_row') = {modal.entry}
     /\ (Idle /\ modal'.kind # "none") =>
          UNCHANGED <<fs, rows, row_entries, current_dir, show_hidden,
                      clipboard, clipboard_op, status>>]_vars

\* C13, witness: the delete dialog is open on a hidden entry listed below
\* the first row, with something on the clipboard.
C13_Witness ==
  /\ InModal("delete")
  /\ cursor_row > 0
  /\ StartsWithDot(PathName(modal.entry))
  /\ show_hidden
  /\ clipboard # {}

\* The listing refresh_table() builds for current_dir from filesystem f.
RowsBuiltFrom(f) ==
  RefreshResult(f, current_dir, show_hidden, scan_desc, row_entries).rows

\* The create dialog of the given kind is confirmed with raw, which names
\* an entry that current_dir holds already.
Collides(raw) ==
  /\ Strip(raw) # s_empty
  /\ PathExists(fs, JoinPath(current_dir, Strip(raw)))

\* What a collision must leave alone: the filesystem, hence every
\* existing entry, the rows shown, and the rows a refresh would build.
CollisionFrame ==
  /\ fs' = fs
  /\ rows' = rows
  /\ row_entries' = row_entries
  /\ UNCHANGED <<current_dir, show_hidden>>
  /\ RowsBuiltFrom(fs') = RowsBuiltFrom(fs)

C15_Serialized ==
  [][/\ modal.kind # "none" =>
          /\ modal' = NoModal
          /\ modal.entry # <<>> => selected_entry(cursor_row) = {modal.entry}
     /\ (modal.kind = "none" /\ modal'.kind # "none") =>
          /\ UNCHANGED <<fs, current_dir, show_hidden, clipboard,
                         clipboard_op, rows, row_entries>>
          /\ modal'.entry # <<>> =>
               selected_entry(cursor_row') = {modal'.entry}]_vars

\* C15, witness: the rename dialog is open on an entry below the first
\* row, the listing having been rebuilt since the copy, with hidden
\* entries shown and something on the clipboard.
C15_Witness ==
  /\ InModal("rename")
  /\ cursor_row > 0
  /\ status.msg = "items"
  /\ show_hidden
  /\ clipboard # {}

\* A step in which refresh_table() is called by a watcher or by a command
\* of its own: a move to another directory, a refresh, a toggle.
Rebuilds ==
  \/ current_dir' # current_dir
  \/ action_refresh
  \/ action_toggle_hidden

\* C16: when the listing is rebuilt for a current_dir that cannot be
\* enumerated, because it may not be read or because it does not exist
\* any more, the app goes on with an empty listing, a warning on the
\* status bar (which action_refresh then replaces by its own message) and
\* no entry selected.
C16_EnumerationContained ==
  [][(Rebuilds /\ IterDir(fs', current_dir', scan_desc').exc # "none") =>
       /\ ~crashed'
       /\ rows' = <<>>
       /\ action_refresh \/ status'.msg \in {"Permission denied", "Error"}
       /\ selected_entry(cursor_row)' = {}]_vars

\* The step makes p the current directory; when p is another directory
\* than before, the listing is the one refresh_table() builds for p.
Arrives(p) ==
  /\ current_dir' = p
  /\ p # current_dir =>
       /\ ~crashed'
       /\ rows' = RefreshResult(fs, p, show_hidden, scan_desc,
                                row_entries).rows

\* The step turns the request down: current_dir, the listing and the
\* clipboard stay.
Stays == UNCHANGED <<current_dir, rows, row_entries, clipboard, clipboard_op>>

\* The contract of a navigation to p.
NavigateTo(p) ==
  IF PathIsDir(fs, p) THEN Arrives(p)
  ELSE Stays /\ status'.msg = "Not a directory"

C18_AbsoluteCurrentDir == IsAbsolute(current_dir)

\* The path of the filesystem root.
RootPath == <<s_slash>>

\* C19: go-up at the root changes neither current_dir nor the listing;
\* anywhere else it makes the parent the current directory, the listing
\* is the one built for the parent, and the path has become shorter.  The
\* root is the only directory that is its own parent, so that go-up,
\* repeated, comes to the root and has no other place to rest.
C19_GoUpReachesRoot ==
  /\ [][action_go_up =>
          IF current_dir = RootPath
            THEN UNCHANGED <<current_dir, rows, row_entries>>
          ELSE /\ Arrives(PathParent(current_dir))
               /\ Len(current_dir') < Len(current_dir)]_vars
  /\ [](PathParent(current_dir) = current_dir => current_dir = RootPath)

\* C20: the selected entry is None when the table has no rows or the
\* cursor is past the last row; otherwise it is the entry of the row
\* under the cursor, _row_entries is as long as the table, and the entry
\* is a child of current_dir under the name the row shows.
C20_SelectionValid ==
  LET sel == selected_entry(cursor_row) IN
  /\ (Len(rows) = 0 \/ cursor_row >= Len(rows)) => sel = {}
  /\ \A e \in sel :
       /\ Len(row_entries) = Len(rows)
       /\ e = row_entries[cursor_row + 1]
       /\ e = current_dir \o <<rows[cursor_row + 1].name>>

\* C20, witness: the listing has been rebuilt for the directory p, which
\* may not be read: the table is empty while _row_entries still holds
\* the entries of the directory shown before.
C20_Witness ==
  /\ current_dir = <<s_slash, s_p>>
  /\ status.msg = "Permission denied"
  /\ rows = <<>>
  /\ row_entries # <<>>
  /\ ~crashed

\* C21: once a command has been handled, the rows shown are the rows
\* refresh_table() builds for current_dir and show_hidden from the
\* filesystem as it is.
C21_ListingConsistent ==
  (last = "handler" /\ Idle) => rows = RowsBuiltFrom(fs)

\* The entries a step handles as its own: what is below the entry a
\* rename moves, and the file the editor saves.
OwnEntries ==
  IF modal.kind \in {"rename", "edit"}
    THEN SubtreeOf(fs, Resolve(fs, modal.entry))
  ELSE {}

\* C22: a step that is not the confirmed delete leaves every other
\* existing entry in place and as it was; a rename to a name that another
\* entry bears is answered with an error.
C22_NoSilentOverwrite ==
  [][/\ modal.kind # "delete" =>
          \A q \in DOMAIN fs \ OwnEntries :
            q \in DOMAIN fs' /\ fs'[q] = fs[q]
     /\ \A raw \in RenameInputs(MutNames) :
          (/\ rename_submit(raw)
           /\ ~RenameSkipped(Strip(raw), PathName(modal.entry))
           /\ PathExists(fs, JoinPath(current_dir, Strip(raw))))
          => status'.msg = "Error"]_vars

====
